---- MODULE Spec2Model ----
(***************************************************************************)
(* MCP Terminal Bridge (agent-terminal-system/mcp-bridge/server.py).       *)
(*                                                                         *)
(* The registry `terminals`, the container engine behind docker_client and *)
(* the Redis mirror behind redis_client are the state.  Every route        *)
(* handler is an `async def` whose body never awaits, so a handler runs    *)
(* to completion on the event loop: one action per handler.  One tick of   *)
(* the cleanup loop (everything between two sleeps) is one action too.     *)
(* Time is counted in hours.                                               *)
(***************************************************************************)
EXTENDS Integers, FiniteSets, Sequences, TLC

VARIABLES terminals, containers, redis, now, faults, resp, given, channel, logs,
          tool, ws, simple

vars == <<terminals, containers, redis, now, faults, resp, given, channel, logs,
          tool, ws, simple>>

(* ---------------------------- configuration ---------------------------- *)

MAX_TERMINALS_PER_AGENT == 5
TERMINAL_TIMEOUT_HOURS == 4
JWT_EXPIRE_HOURS == 24

(* ------------------------------- bounds -------------------------------- *)

\* terminals ever created in a behaviour of Spec
MaxTerminals == 2
\* terminals ever created in a behaviour of SpecQuota (one more than the quota)
MaxQuotaTerminals == 6
\* advances of the clock
MaxTicks == 2
\* injected failures of the container engine or of Redis
MaxFaults == 1
\* entries of the command lists of the mirror, all terminals together
MaxCommands == 1

Agents == {"a1", "a2"}
NoAgent == "none"
\* the clock moves by one terminal lifetime at a time
ClockStep == TERMINAL_TIMEOUT_HOURS
\* a terminal id no create has produced
UnknownId == 0

(* ------------------------------- helpers ------------------------------- *)

EmptyMap == [x \in {} |-> 0]
Put(f, k, v) == [x \in DOMAIN f \cup {k} |-> IF x = k THEN v ELSE f[x]]
Del(f, k) == [x \in DOMAIN f \ {k} |-> f[x]]

Store(T, C, R) == [terminals |-> T, containers |-> C, redis |-> R]
Current == Store(terminals, containers, redis)

\* the result of running a function of the server on a store S: the HTTP
\* status and detail, the engine calls made, the store afterwards, and the
\* injected fault that was hit ("none" when the chosen one was not reached)
Outcome(code, detail, calls, S, hit) ==
    [code |-> code, detail |-> detail, calls |-> calls, store |-> S, hit |-> hit]

\* what the last completed operation was and what its caller got: the verified
\* identity (NoAgent when the credential was rejected), the agent_id of a create
\* payload, the terminal addressed (for a create, the id inserted), the status
\* and detail, the engine calls made, and the ids of the records returned
Response(op, agent, payload, tid, code, detail, calls, listing) ==
    [op |-> op, agent |-> agent, payload |-> payload, tid |-> tid, code |-> code,
     detail |-> detail, calls |-> calls, listing |-> listing]

\* the body of POST /terminals (`command` plays no part in what follows)
TerminalCreateRequest(agent_id, environment, timeout_hours) ==
    [agent_id |-> agent_id, environment |-> environment, timeout_hours |-> timeout_hours]

\* the default of TerminalCreateRequest.timeout_hours
DefaultTimeoutHours == 4

NoRequest == TerminalCreateRequest(NoAgent, EmptyMap, 0)

\* what the last operation was given: the body of a create request, and the
\* calls of the engine or of the mirror that were made to fail during it
Given(request, failed) == [request |-> request, failed |-> failed]

\* a container of the engine: its state and the environment it was started with
Container(status, environment) == [status |-> status, environment |-> environment]

\* a WebSocket a terminal_stream handler is relaying on: the terminal, the
\* agent of its token, whether the caller is still there, and the lines the
\* log stream of the container holds that the loop has not taken yet
Channel(terminal_id, agent_id, connected, pending) ==
    [open |-> TRUE, tid |-> terminal_id, agent |-> agent_id,
     connected |-> connected, pending |-> pending]

NoChannel == [open |-> FALSE, tid |-> UnknownId, agent |-> NoAgent,
              connected |-> FALSE, pending |-> 0]

TerminalKey(terminal_id) == <<"terminal", terminal_id>>

\* mutant: one command list for all terminals
CommandsKey_shared(terminal_id) == <<"commands", 1>>

CommandsKey(terminal_id) == <<"commands", terminal_id>>

(* --------------------------- Identity Verifier ------------------------- *)

\* expiry of a token issued before the behaviour starts
StaleTokenExp == 2

Token(agent_id, exp) == [kind |-> "token", agent_id |-> agent_id, exp |-> exp]
NoCredential == [kind |-> "missing", agent_id |-> NoAgent, exp |-> 0]
BadToken == [kind |-> "malformed", agent_id |-> NoAgent, exp |-> 0]

\* what a caller can present: nothing, a string that does not decode, a token
\* create_access_token signed now (exp = now + JWT_EXPIRE_HOURS at issue; the
\* clock never gets that far) or one it signed long ago
Credentials ==
    {NoCredential, BadToken}
        \cup {Token(a, e) : a \in Agents, e \in {StaleTokenExp, JWT_EXPIRE_HOURS}}

Verified(agent_id) == [ok |-> TRUE, agent_id |-> agent_id, code |-> 200, detail |-> ""]
Rejected(code, detail) == [ok |-> FALSE, agent_id |-> NoAgent, code |-> code, detail |-> detail]

\* HTTPBearer() answers a request without credentials itself, before
\* verify_token runs: 403 or 401, depending on the FastAPI release.
MissingCredentialCodes == {401, 403}

\* `except jwt.JWTError` names an attribute the module imported as `jwt` must
\* provide.  Where it does the handler answers 401; PyJWT (whose encode/decode
\* signatures lines 134 and 139 use) has no such attribute, so evaluating the
\* clause raises AttributeError and the request ends as 500.
InvalidTokenCodes == {401, 500}

\* server.py verify_token: the set of results the build can produce
verify_token(credentials) ==
    CASE credentials.kind = "missing" ->
            {Rejected(c, "Not authenticated") : c \in MissingCredentialCodes}
      [] credentials.kind = "malformed" ->
            {Rejected(c, "Invalid token") : c \in InvalidTokenCodes}
      [] credentials.kind = "token" /\ credentials.exp <= now ->
            {Rejected(401, "Token expired")}
      [] OTHER -> {Verified(credentials.agent_id)}

(* ---------------------- terminal management functions ------------------ *)

\* mutant: the quota counts every record of the agent, destroyed or not
Running_or_not(T, agent_id) ==
    {t \in DOMAIN T : T[t].agent_id = agent_id}

Running(T, agent_id) ==
    {t \in DOMAIN T : T[t].agent_id = agent_id /\ T[t].status = "running"}

\* mutant: an id generator that hands out the same id again
NewTerminalId_reused(T) == 1

\* str(uuid.uuid4()): an id no record has
NewTerminalId(T) == Cardinality(DOMAIN T) + 1

\* mutant: the limit check off by one
QuotaReached_above(n) == n > MAX_TERMINALS_PER_AGENT

\* the limit check of create_agent_terminal
QuotaReached(n) == n >= MAX_TERMINALS_PER_AGENT

\* mutant: the record is inserted in a state before running
terminal_info_creating(terminal_id, agent_id) ==
    [agent_id |-> agent_id,
     container_id |-> terminal_id,
     status |-> "creating",
     created_at |-> now,
     expires_at |-> now + TERMINAL_TIMEOUT_HOURS]

terminal_info(terminal_id, agent_id) ==
    [agent_id |-> agent_id,
     container_id |-> terminal_id,
     status |-> "running",
     created_at |-> now,
     expires_at |-> now + TERMINAL_TIMEOUT_HOURS]

\* dict.update: the entries of e replace those of d
Update(d, e) == [k \in DOMAIN d \cup DOMAIN e |-> IF k \in DOMAIN e THEN e[k] ELSE d[k]]

\* the environment create_agent_terminal hands to containers.run
env_vars(agent_id, terminal_id, environment) ==
    Update([AGENT_ID |-> agent_id, TERMINAL_ID |-> terminal_id, LOG_DIR |-> "/tmp/logs"],
           environment)

CreateFaults == {"run", "setex"}

\* mutant: the container is started before the limit is checked
create_agent_terminal_late_check(S, agent_id, environment, f) ==
    LET terminal_id == NewTerminalId(S.terminals)
        started == Store(S.terminals,
                         Put(S.containers, terminal_id,
                             Container("running", env_vars(agent_id, terminal_id, environment))),
                         S.redis)
    IN  IF f = "run"
        THEN Outcome(500, "Failed to create terminal", {"run"}, S, f)
        ELSE IF QuotaReached(Cardinality(Running(S.terminals, agent_id)))
        THEN Outcome(429, "Maximum terminals reached for agent", {"run"}, started, "none")
        ELSE LET info == terminal_info(terminal_id, agent_id)
                 T1 == Put(S.terminals, terminal_id, info)
             IN  IF f = "setex"
                 THEN Outcome(500, "Failed to create terminal", {"run"},
                              Store(T1, started.containers, S.redis), f)
                 ELSE Outcome(200, "", {"run"},
                              Store(T1, started.containers,
                                    Put(S.redis, TerminalKey(terminal_id),
                                        [len |-> 1, ttl |-> now + TERMINAL_TIMEOUT_HOURS])),
                              "none")

\* mutant: the record is inserted before the engine has started the container
create_agent_terminal_early_insert(S, agent_id, environment, f) ==
    LET terminal_id == NewTerminalId(S.terminals)
        info == terminal_info(terminal_id, agent_id)
        T1 == Put(S.terminals, terminal_id, info)
    IN  IF QuotaReached(Cardinality(Running(S.terminals, agent_id)))
        THEN Outcome(429, "Maximum terminals reached for agent", {}, S, "none")
        ELSE IF f = "run"
        THEN Outcome(500, "Failed to create terminal", {"run"},
                     Store(T1, S.containers, S.redis), f)
        ELSE LET C1 == Put(S.containers, info.container_id,
                           Container("running", env_vars(agent_id, terminal_id, environment)))
             IN  IF f = "setex"
                 THEN Outcome(500, "Failed to create terminal", {"run"},
                              Store(T1, C1, S.redis), f)
                 ELSE Outcome(200, "", {"run"},
                              Store(T1, C1,
                                    Put(S.redis, TerminalKey(terminal_id),
                                        [len |-> 1, ttl |-> now + TERMINAL_TIMEOUT_HOURS])),
                              "none")

\* server.py create_agent_terminal, with the injected fault f
create_agent_terminal(S, agent_id, environment, f) ==
    LET terminal_id == NewTerminalId(S.terminals)
    IN  IF QuotaReached(Cardinality(Running(S.terminals, agent_id)))
        THEN Outcome(429, "Maximum terminals reached for agent", {}, S, "none")
        ELSE IF f = "run"
        THEN Outcome(500, "Failed to create terminal", {"run"}, S, f)
        ELSE LET info == terminal_info(terminal_id, agent_id)
                 C1 == Put(S.containers, info.container_id,
                           Container("running", env_vars(agent_id, terminal_id, environment)))
                 T1 == Put(S.terminals, terminal_id, info)
             IN  IF f = "setex"
                 THEN Outcome(500, "Failed to create terminal", {"run"},
                              Store(T1, C1, S.redis), f)
                 ELSE Outcome(200, "", {"run"},
                              Store(T1, C1,
                                    Put(S.redis, TerminalKey(terminal_id),
                                        [len |-> 1, ttl |-> now + TERMINAL_TIMEOUT_HOURS])),
                              "none")

ExecuteFaults == {"get", "exec_run", "lpush", "expire"}

\* redis lpush then expire on the command list of a terminal
PushCommand(R, terminal_id, f) ==
    LET key == CommandsKey(terminal_id)
        old == IF key \in DOMAIN R THEN R[key] ELSE [len |-> 0, ttl |-> -1]
    IN  IF f = "lpush" THEN R
        ELSE IF f = "expire" THEN Put(R, key, [len |-> old.len + 1, ttl |-> old.ttl])
        ELSE Put(R, key, [len |-> old.len + 1, ttl |-> now + TERMINAL_TIMEOUT_HOURS])

\* mutant: the status of the record is not looked at
execute_command_in_terminal_unchecked(S, terminal_id, f) ==
    IF terminal_id \notin DOMAIN S.terminals
    THEN Outcome(404, "Terminal not found", {}, S, "none")
    ELSE LET terminal == S.terminals[terminal_id] IN
    IF terminal.container_id \notin DOMAIN S.containers
    THEN Outcome(500, "Command execution failed", {"get"}, S, "none")
    ELSE IF S.containers[terminal.container_id].status # "running"
    THEN Outcome(500, "Command execution failed", {"get", "exec_run"}, S, "none")
    ELSE Outcome(200, "", {"get", "exec_run"},
                 Store(S.terminals, S.containers, PushCommand(S.redis, terminal_id, f)), "none")

\* mutant: a command the engine could not run takes the terminal out of service
execute_command_in_terminal_giving_up(S, terminal_id, f) ==
    IF terminal_id \notin DOMAIN S.terminals
    THEN Outcome(404, "Terminal not found", {}, S, "none")
    ELSE LET terminal == S.terminals[terminal_id] IN
    IF terminal.status # "running"
    THEN Outcome(400, "Terminal not running", {}, S, "none")
    ELSE IF terminal.container_id \notin DOMAIN S.containers
    THEN Outcome(500, "Command execution failed", {"get"}, S, "none")
    ELSE IF S.containers[terminal.container_id].status # "running"
    THEN Outcome(500, "Command execution failed", {"get", "exec_run"}, S, "none")
    ELSE IF f \in {"get", "exec_run"}
    THEN Outcome(500, "Command execution failed", {"get", "exec_run"},
                 Store([S.terminals EXCEPT ![terminal_id].status = "destroyed"],
                       S.containers, S.redis), f)
    ELSE Outcome(IF f = "none" THEN 200 ELSE 500, "", {"get", "exec_run"},
                 Store(S.terminals, S.containers, PushCommand(S.redis, terminal_id, f)), f)

\* server.py execute_command_in_terminal
execute_command_in_terminal(S, terminal_id, f) ==
    IF terminal_id \notin DOMAIN S.terminals
    THEN Outcome(404, "Terminal not found", {}, S, "none")
    ELSE LET terminal == S.terminals[terminal_id] IN
    IF terminal.status # "running"
    THEN Outcome(400, "Terminal not running", {}, S, "none")
    ELSE IF terminal.container_id \notin DOMAIN S.containers
    THEN Outcome(500, "Command execution failed", {"get"}, S, "none")
    ELSE IF f = "get"
    THEN Outcome(500, "Command execution failed", {"get"}, S, f)
    ELSE IF S.containers[terminal.container_id].status # "running"
    THEN Outcome(500, "Command execution failed", {"get", "exec_run"}, S, "none")
    ELSE IF f = "exec_run"
    THEN Outcome(500, "Command execution failed", {"get", "exec_run"}, S, f)
    ELSE LET R1 == PushCommand(S.redis, terminal_id, f) IN
         IF f \in {"lpush", "expire"}
         THEN Outcome(500, "Command execution failed", {"get", "exec_run"},
                      Store(S.terminals, S.containers, R1), f)
         ELSE Outcome(200, "", {"get", "exec_run"},
                      Store(S.terminals, S.containers, R1), "none")

LogsFaults == {"get", "logs"}

\* mutant: a terminal whose container is gone is dropped from the registry
get_terminal_logs_evicting(S, terminal_id, f) ==
    IF terminal_id \notin DOMAIN S.terminals
    THEN Outcome(404, "Terminal not found", {}, S, "none")
    ELSE IF S.terminals[terminal_id].container_id \notin DOMAIN S.containers
    THEN Outcome(500, "Failed to get logs", {"get"},
                 Store(Del(S.terminals, terminal_id), S.containers, S.redis), "none")
    ELSE Outcome(IF f = "none" THEN 200 ELSE 500, "", {"get", "logs"}, S, f)

\* server.py get_terminal_logs
get_terminal_logs(S, terminal_id, f) ==
    IF terminal_id \notin DOMAIN S.terminals
    THEN Outcome(404, "Terminal not found", {}, S, "none")
    ELSE LET terminal == S.terminals[terminal_id] IN
    IF terminal.container_id \notin DOMAIN S.containers
    THEN Outcome(500, "Failed to get logs", {"get"}, S, "none")
    ELSE IF f = "get"
    THEN Outcome(500, "Failed to get logs", {"get"}, S, f)
    ELSE IF f = "logs"
    THEN Outcome(500, "Failed to get logs", {"get", "logs"}, S, f)
    ELSE Outcome(200, "", {"get", "logs"}, S, "none")

DestroyFaults == {"get", "stop", "remove", "delete", "delete_commands"}

\* mutant: a status outside the two of the state machine
DestroyedStatus_stopped == "stopped"

\* the status destroy_terminal writes
DestroyedStatus == "destroyed"

\* mutant: a destroy that gives way to other requests once the container is
\* stopped, before the record says so
destroy_terminal_stop_only(S, terminal_id, f) ==
    IF terminal_id \notin DOMAIN S.terminals
    THEN Outcome(404, "Terminal not found", {}, S, "none")
    ELSE LET cid == S.terminals[terminal_id].container_id IN
    IF cid \notin DOMAIN S.containers
    THEN Outcome(500, "Failed to destroy terminal", {"get"}, S, "none")
    ELSE Outcome(200, "", {"get", "stop"},
                 Store(S.terminals, [S.containers EXCEPT ![cid].status = "exited"], S.redis),
                 "none")

\* mutant: the container is stopped and kept, and can be stopped again
destroy_terminal_repeatable(S, terminal_id, f) ==
    IF terminal_id \notin DOMAIN S.terminals
    THEN Outcome(404, "Terminal not found", {}, S, "none")
    ELSE LET cid == S.terminals[terminal_id].container_id IN
    IF cid \notin DOMAIN S.containers
    THEN Outcome(500, "Failed to destroy terminal", {"get"}, S, "none")
    ELSE Outcome(IF f = "none" THEN 200 ELSE 500, "", {"get", "stop"},
                 Store([S.terminals EXCEPT ![terminal_id].status = "destroyed"],
                       [S.containers EXCEPT ![cid].status = "exited"],
                       Del(Del(S.redis, TerminalKey(terminal_id)), CommandsKey(terminal_id))),
                 f)

\* mutant: the record is marked before the engine is asked
destroy_terminal_status_first(S, terminal_id, f) ==
    IF terminal_id \notin DOMAIN S.terminals
    THEN Outcome(404, "Terminal not found", {}, S, "none")
    ELSE LET cid == S.terminals[terminal_id].container_id
             T1 == [S.terminals EXCEPT ![terminal_id].status = "destroyed"]
         IN
    IF cid \notin DOMAIN S.containers
    THEN Outcome(500, "Failed to destroy terminal", {"get"}, S, "none")
    ELSE IF f # "none"
    THEN Outcome(500, "Failed to destroy terminal", {"get"},
                 Store(T1, S.containers, S.redis), f)
    ELSE Outcome(200, "", {"get", "stop", "remove"},
                 Store(T1, Del(S.containers, cid),
                       Del(Del(S.redis, TerminalKey(terminal_id)), CommandsKey(terminal_id))),
                 "none")

\* server.py destroy_terminal
destroy_terminal(S, terminal_id, f) ==
    IF terminal_id \notin DOMAIN S.terminals
    THEN Outcome(404, "Terminal not found", {}, S, "none")
    ELSE LET terminal == S.terminals[terminal_id]
             cid == terminal.container_id
         IN
    IF cid \notin DOMAIN S.containers
    THEN Outcome(500, "Failed to destroy terminal", {"get"}, S, "none")
    ELSE IF f = "get"
    THEN Outcome(500, "Failed to destroy terminal", {"get"}, S, f)
    ELSE IF f = "stop"
    THEN Outcome(500, "Failed to destroy terminal", {"get", "stop"}, S, f)
    ELSE IF f = "remove"
    THEN Outcome(500, "Failed to destroy terminal", {"get", "stop", "remove"},
                 Store(S.terminals, [S.containers EXCEPT ![cid].status = "exited"], S.redis), f)
    ELSE LET C1 == Del(S.containers, cid)
             T1 == [S.terminals EXCEPT ![terminal_id].status = DestroyedStatus]
             R1 == Del(S.redis, TerminalKey(terminal_id))
             R2 == Del(R1, CommandsKey(terminal_id))
             docker == {"get", "stop", "remove"}
         IN  IF f = "delete"
             THEN Outcome(500, "Failed to destroy terminal", docker,
                          Store(T1, C1, S.redis), f)
             ELSE IF f = "delete_commands"
             THEN Outcome(500, "Failed to destroy terminal", docker,
                          Store(T1, C1, R1), f)
             ELSE Outcome(200, "", docker, Store(T1, C1, R2), "none")

(* ------------------------------ API routes ----------------------------- *)

\* What a call of an MCP tool gave its caller, in the step in which the call
\* ended: the tool, the terminal named, whether the call raised, the
\* 'success' of the dictionary returned and its 'error' or remark, and the
\* statuses of the bridge's answers in the order of the requests.
ToolResult(name, tid, raised, success, error, statuses) ==
    [name |-> name, tid |-> tid, raised |-> raised, success |-> success,
     error |-> error, statuses |-> statuses]

NoTool ==
    [name |-> "none", tid |-> UnknownId, raised |-> FALSE, success |-> FALSE,
     error |-> "", statuses |-> << >>]

\* The WebSocket client of _stream_logs: whether its loop is running, its
\* timeout_count and the length of its log_buffer (counted up to
\* MaxBufferedLines).
StreamClient(running, timeout_count, log_buffer) ==
    [running |-> running, timeout_count |-> timeout_count, log_buffer |-> log_buffer]

NoStream == StreamClient(FALSE, 0, 0)

\* simple_bridge.py keeps its terminals in active_terminals and runs docker
\* through the shell.  created: the ids uuid4 has given out, counted;
\* containers: the containers its commands have started and not removed,
\* named by the id of their terminal; resp: what its last request was
\* answered.
SimpleBridge(active_terminals, created, running, response) ==
    [active_terminals |-> active_terminals, created |-> created,
     containers |-> running, resp |-> response]

\* the answer to a request of the simple bridge: the HTTP status and, where
\* the body has one, its 'success'
SimpleResponse(op, tid, code, success) ==
    [op |-> op, tid |-> tid, code |-> code, success |-> success]

NoSimpleBridge == SimpleBridge(EmptyMap, 0, {}, SimpleResponse("init", UnknownId, 0, FALSE))

\* a step of the bridge of server.py in which no call of an MCP tool ends:
\* _stream_logs does not move, and nor does the simple bridge
NoToolCall == tool' = NoTool /\ ws' = ws /\ simple' = simple

NoFault == "none"

RECURSIVE Entries(_, _)
Entries(R, keys) ==
    IF keys = {} THEN 0
    ELSE LET k == CHOOSE x \in keys : TRUE IN R[k].len + Entries(R, keys \ {k})

\* the commands the mirror holds
Commands(R) == Entries(R, {k \in DOMAIN R : k[1] = "commands"})

\* the store becomes the one the outcome carries; an injected fault counts
\* against MaxFaults
Apply(out, f) ==
    /\ out.hit = f
    /\ f # NoFault => faults < MaxFaults
    /\ terminals' = out.store.terminals
    /\ containers' = out.store.containers
    /\ redis' = out.store.redis
    /\ faults' = IF f = NoFault THEN faults ELSE faults + 1
    /\ now' = now
    /\ channel' = channel
    /\ logs' = logs

\* a request that ends before any function of the server touches the store
Refuse(r) ==
    /\ resp' = r
    /\ given' = Given(NoRequest, {})
    /\ UNCHANGED <<terminals, containers, redis, now, faults, channel, logs>>

\* mutant: the payload's agent_id is trusted
AgentMismatch_skipped(request_agent_id, token_agent_id) == FALSE

\* the payload check of create_terminal
AgentMismatch(request_agent_id, token_agent_id) == request_agent_id # token_agent_id

\* POST /terminals
create_terminal(credentials, request, f) ==
    \E v \in verify_token(credentials) :
        IF ~v.ok
        THEN f = NoFault
             /\ Refuse(Response("create", NoAgent, NoAgent, UnknownId, v.code, v.detail, {}, {}))
        ELSE IF AgentMismatch(request.agent_id, v.agent_id)
        THEN f = NoFault
             /\ Refuse(Response("create", v.agent_id, request.agent_id, UnknownId, 403,
                                "Agent ID mismatch", {}, {}))
        ELSE \E out \in {create_agent_terminal(Current, request.agent_id,
                                                request.environment, f)} :
             LET made == DOMAIN out.store.terminals \ DOMAIN terminals
                 tid == IF made = {} THEN UnknownId ELSE CHOOSE t \in made : TRUE
             IN  /\ Apply(out, f)
                 /\ resp' = Response("create", v.agent_id, request.agent_id, tid, out.code,
                                     out.detail, out.calls, made)
                 /\ given' = Given(request, {f} \ {NoFault})

\* mutant: any verified agent may address any terminal
AccessDenied_skipped(terminal, token_agent_id) == FALSE

\* the ownership check the routes make before they call into the store
AccessDenied(terminal, token_agent_id) == terminal.agent_id # token_agent_id

\* POST /terminals/{terminal_id}/execute
execute_command(credentials, terminal_id, f) ==
    \E v \in verify_token(credentials) :
        IF ~v.ok
        THEN f = NoFault
             /\ Refuse(Response("execute", NoAgent, NoAgent, UnknownId, v.code, v.detail, {}, {}))
        ELSE IF terminal_id \notin DOMAIN terminals
        THEN f = NoFault
             /\ Refuse(Response("execute", v.agent_id, NoAgent, terminal_id, 404,
                                "Terminal not found", {}, {}))
        ELSE IF AccessDenied(terminals[terminal_id], v.agent_id)
        THEN f = NoFault
             /\ Refuse(Response("execute", v.agent_id, NoAgent, terminal_id, 403,
                                "Access denied", {}, {}))
        ELSE \E out \in {execute_command_in_terminal(Current, terminal_id, f)} :
                 /\ Apply(out, f)
                 /\ resp' = Response("execute", v.agent_id, NoAgent, terminal_id, out.code,
                                     out.detail, out.calls, {})
                 /\ given' = Given(NoRequest, {f} \ {NoFault})

\* GET /terminals/{terminal_id}/logs
get_logs(credentials, terminal_id, f) ==
    \E v \in verify_token(credentials) :
        IF ~v.ok
        THEN f = NoFault
             /\ Refuse(Response("get_logs", NoAgent, NoAgent, UnknownId, v.code, v.detail, {}, {}))
        ELSE IF terminal_id \notin DOMAIN terminals
        THEN f = NoFault
             /\ Refuse(Response("get_logs", v.agent_id, NoAgent, terminal_id, 404,
                                "Terminal not found", {}, {}))
        ELSE IF AccessDenied(terminals[terminal_id], v.agent_id)
        THEN f = NoFault
             /\ Refuse(Response("get_logs", v.agent_id, NoAgent, terminal_id, 403,
                                "Access denied", {}, {}))
        ELSE \E out \in {get_terminal_logs(Current, terminal_id, f)} :
                 /\ Apply(out, f)
                 /\ resp' = Response("get_logs", v.agent_id, NoAgent, terminal_id, out.code,
                                     out.detail, out.calls, {})
                 /\ given' = Given(NoRequest, {f} \ {NoFault})

\* DELETE /terminals/{terminal_id}
delete_terminal(credentials, terminal_id, f) ==
    \E v \in verify_token(credentials) :
        IF ~v.ok
        THEN f = NoFault
             /\ Refuse(Response("delete", NoAgent, NoAgent, UnknownId, v.code, v.detail, {}, {}))
        ELSE IF terminal_id \notin DOMAIN terminals
        THEN f = NoFault
             /\ Refuse(Response("delete", v.agent_id, NoAgent, terminal_id, 404,
                                "Terminal not found", {}, {}))
        ELSE IF AccessDenied(terminals[terminal_id], v.agent_id)
        THEN f = NoFault
             /\ Refuse(Response("delete", v.agent_id, NoAgent, terminal_id, 403,
                                "Access denied", {}, {}))
        ELSE \E out \in {destroy_terminal(Current, terminal_id, f)} :
                 /\ Apply(out, f)
                 /\ resp' = Response("delete", v.agent_id, NoAgent, terminal_id, out.code,
                                     out.detail, out.calls, {})
                 /\ given' = Given(NoRequest, {f} \ {NoFault})

\* mutant: the list is not filtered by owner
agent_terminals_all(T, agent_id) == DOMAIN T

\* mutant: the list leaves out what is not running
agent_terminals_running(T, agent_id) == Running(T, agent_id)

\* the filter of list_terminals
agent_terminals(T, agent_id) == {t \in DOMAIN T : T[t].agent_id = agent_id}

\* GET /terminals
list_terminals(credentials) ==
    \E v \in verify_token(credentials) :
        IF ~v.ok
        THEN Refuse(Response("list", NoAgent, NoAgent, UnknownId, v.code, v.detail, {}, {}))
        ELSE Refuse(Response("list", v.agent_id, NoAgent, UnknownId, 200, "", {},
                             agent_terminals(terminals, v.agent_id)))

\* GET /health
health_check ==
    Refuse(Response("health", NoAgent, NoAgent, UnknownId, 200, "healthy", {},
                    {t \in DOMAIN terminals : terminals[t].status = "running"}))

(* ------------------------- WebSocket log stream ------------------------ *)

\* the jwt.decode of terminal_stream.  Its only handler is `except
\* jwt.JWTError`: where that class exists it answers "Invalid token"; where it
\* does not, the outer `except Exception` logs and closes the socket.
decode_token(token) ==
    CASE token.kind = "missing" -> {Rejected(0, "Token required")}
      [] token.kind = "malformed" \/ token.exp <= now ->
            {Rejected(0, "Invalid token"), Rejected(0, "WebSocket error")}
      [] OTHER -> {Verified(token.agent_id)}

StreamFaults == {"get", "logs"}

\* lines a container's log can come to hold
MaxLogLines == 2

\* The command create_agent_terminal starts the container with echoes a
\* banner ("=== Agent Terminal Started ===" ... "Terminal ready for commands")
\* before anything else: no container's log is empty.  The banner is counted
\* as one line.
StartupLines == 1

\* The log of the container the channel is on, its lines numbered from 1 in
\* the order the session wrote them: since is the number of lines the log
\* held when the channel was opened, sent the numbers of the lines sent down
\* the channel so far.
Logs(since, sent) == [since |-> since, sent |-> sent]

NoLogs == Logs(0, << >>)

\* What a log can hold when a channel is opened on it: the banner, and
\* whatever the session wrote after it.
Written == StartupLines .. MaxLogLines

\* the calls of terminal_stream at the engine once its checks have passed
stream_logs(S, terminal_id, f) ==
    LET cid == S.terminals[terminal_id].container_id
    IN  IF cid \notin DOMAIN S.containers
        THEN Outcome(0, "WebSocket error", {"get"}, S, NoFault)
        ELSE IF f = "get"
        THEN Outcome(0, "WebSocket error", {"get"}, S, f)
        ELSE IF f = "logs"
        THEN Outcome(0, "WebSocket error", {"get", "logs"}, S, f)
        ELSE Outcome(0, "streaming", {"get", "logs"}, S, NoFault)

\* the handler has the log stream and enters its loop.  A caller that does
\* not stay is gone when the first line is sent to it, which ends the
\* handler; behind a caller that stays the handler goes on relaying.  One
\* relaying handler is followed at a time.
\* The log stream is container.logs(stream=True, follow=True) with neither
\* tail nor since: it starts at the first line of the container's log, so
\* all the lines the log holds are waiting for the loop.
Relaying(out, terminal_id, agent_id, stay) ==
    /\ stay => ~channel.open
    /\ IF stay /\ out.detail = "streaming"
       THEN \E written \in Written :
                /\ channel' = Channel(terminal_id, agent_id, TRUE, written)
                /\ logs' = Logs(written, << >>)
       ELSE UNCHANGED <<channel, logs>>

\* mutant: the log stream is handed to any verified caller
terminal_stream_unchecked(token, terminal_id, f, stay) ==
    \E v \in decode_token(token) :
        IF ~v.ok
        THEN f = NoFault
             /\ Refuse(Response("stream", NoAgent, NoAgent, UnknownId, 0, v.detail, {}, {}))
        ELSE IF terminal_id \notin DOMAIN terminals
        THEN f = NoFault
             /\ Refuse(Response("stream", v.agent_id, NoAgent, terminal_id, 0,
                                "Terminal not found", {}, {}))
        ELSE \E out \in {stream_logs(Current, terminal_id, f)} :
                 /\ out.hit = f
                 /\ f # NoFault => faults < MaxFaults
                 /\ faults' = IF f = NoFault THEN faults ELSE faults + 1
                 /\ UNCHANGED <<terminals, containers, redis, now>>
                 /\ Relaying(out, terminal_id, v.agent_id, stay)
                 /\ resp' = Response("stream", v.agent_id, NoAgent, terminal_id, out.code,
                                     out.detail, out.calls, {})
                 /\ given' = Given(NoRequest, {f} \ {NoFault})

\* WS /terminals/{terminal_id}/stream, up to the first line relayed
terminal_stream(token, terminal_id, f, stay) ==
    \E v \in decode_token(token) :
        IF ~v.ok
        THEN f = NoFault
             /\ Refuse(Response("stream", NoAgent, NoAgent, UnknownId, 0, v.detail, {}, {}))
        ELSE IF terminal_id \notin DOMAIN terminals
        THEN f = NoFault
             /\ Refuse(Response("stream", v.agent_id, NoAgent, terminal_id, 0,
                                "Terminal not found", {}, {}))
        ELSE IF AccessDenied(terminals[terminal_id], v.agent_id)
        THEN f = NoFault
             /\ Refuse(Response("stream", v.agent_id, NoAgent, terminal_id, 0,
                                "Access denied", {}, {}))
        ELSE \E out \in {stream_logs(Current, terminal_id, f)} :
                 /\ out.hit = f
                 /\ f # NoFault => faults < MaxFaults
                 /\ faults' = IF f = NoFault THEN faults ELSE faults + 1
                 /\ UNCHANGED <<terminals, containers, redis, now>>
                 /\ Relaying(out, terminal_id, v.agent_id, stay)
                 /\ resp' = Response("stream", v.agent_id, NoAgent, terminal_id, out.code,
                                     out.detail, out.calls, {})
                 /\ given' = Given(NoRequest, {f} \ {NoFault})

\* the line the log stream yields next: the one after those the loop took
log_line == Len(logs.sent) + 1

\* a step that belongs to an open channel and to no request
ChannelStep(op, next) ==
    /\ channel.open
    /\ channel' = next
    /\ resp' = Response(op, channel.agent, NoAgent, channel.tid, 0, "", {}, {})
    /\ given' = Given(NoRequest, {})
    /\ UNCHANGED <<terminals, containers, redis, now, faults>>
    /\ NoToolCall

\* lines the log stream holds that the loop has not taken
MaxPendingLines == 1

\* the container of the terminal the channel is on is up
SessionUp ==
    LET cid == terminals[channel.tid].container_id
    IN  cid \in DOMAIN containers /\ containers[cid].status = "running"

\* the caller closes its end of the WebSocket
disconnect ==
    /\ channel.open /\ channel.connected
    /\ ChannelStep("disconnect", [channel EXCEPT !.connected = FALSE])
    /\ logs' = logs

\* the session writes a line to its log
emit_line ==
    /\ channel.open /\ SessionUp
    /\ channel.pending < MaxPendingLines
    /\ Len(logs.sent) + channel.pending < MaxLogLines
    /\ ChannelStep("emit", [channel EXCEPT !.pending = @ + 1])
    /\ logs' = logs

\* one round of the loop of terminal_stream: the log stream yields a line and
\* it is sent, or the send raises because the caller is gone and the loop is
\* left, or the log stream is over because the container is
relay_log_line ==
    /\ channel.open
    /\ \/ /\ channel.pending > 0
          /\ IF channel.connected
             THEN /\ ChannelStep("relay", [channel EXCEPT !.pending = @ - 1])
                  /\ logs' = [logs EXCEPT !.sent = Append(@, log_line)]
             ELSE /\ ChannelStep("closed", NoChannel)
                  /\ logs' = NoLogs
       \/ /\ channel.pending = 0
          /\ ~SessionUp
          /\ ChannelStep("closed", NoChannel)
          /\ logs' = NoLogs

(* ----------------------------- Expiry sweeper -------------------------- *)

\* mutant: the comparison of the sweep turned around
Expired_flipped(terminal, current_time) == current_time < terminal.expires_at

\* mutant: a terminal is swept at the very hour it expires
Expired_inclusive(terminal, current_time) == current_time >= terminal.expires_at

\* the comparison of the sweep: current_time > expires_at
Expired(terminal, current_time) == current_time > terminal.expires_at

\* the snapshot a tick of cleanup_expired_terminals takes
expired_terminals(T, current_time) ==
    {t \in DOMAIN T : T[t].status = "running" /\ Expired(T[t], current_time)}

Min(ids) == CHOOSE t \in ids : \A u \in ids : t <= u

\* what a tick has done so far: the store, whether every injected fault was
\* hit, the engine calls made and the ids destroyed
Swept(S, hit, calls, destroyed) ==
    [store |-> S, hit |-> hit, calls |-> calls, destroyed |-> destroyed]

\* mutant: a terminal whose teardown failed is written off
SweepOne_written_off(acc, t, out, f) ==
    Swept(IF out.code = 200 THEN out.store
          ELSE Store([out.store.terminals EXCEPT ![t].status = "destroyed"],
                     out.store.containers, out.store.redis),
          acc.hit /\ out.hit = f, acc.calls \cup out.calls,
          acc.destroyed \cup (IF out.code = 200 THEN {t} ELSE {}))

\* the body of the second loop of a tick, for one id of the snapshot: an
\* exception of destroy_terminal is logged and the loop goes on
SweepOne(acc, t, out, f) ==
    Swept(out.store, acc.hit /\ out.hit = f, acc.calls \cup out.calls,
          acc.destroyed \cup (IF out.code = 200 THEN {t} ELSE {}))

\* mutant: the first teardown that fails ends the loop
RECURSIVE SweepEach_aborting(_, _, _)
SweepEach_aborting(acc, ids, fa) ==
    IF ids = {}
    THEN acc
    ELSE LET t == Min(ids)
         IN  CHOOSE r \in {IF out.code = 200
                           THEN SweepEach_aborting(SweepOne(acc, t, out, fa[t]), ids \ {t}, fa)
                           ELSE SweepOne(acc, t, out, fa[t]) :
                              out \in {destroy_terminal(acc.store, t, fa[t])}} : TRUE

\* the second loop of a tick, over the snapshot in the order of the dictionary
RECURSIVE SweepEach(_, _, _)
SweepEach(acc, ids, fa) ==
    IF ids = {}
    THEN acc
    ELSE LET t == Min(ids)
         IN  CHOOSE r \in {SweepEach(SweepOne(acc, t, out, fa[t]), ids \ {t}, fa) :
                              out \in {destroy_terminal(acc.store, t, fa[t])}} : TRUE

\* one tick of cleanup_expired_terminals
cleanup_expired_terminals(F) ==
    LET snapshot == expired_terminals(terminals, now) IN
    \E bad \in (IF F = {} THEN {{}} ELSE SUBSET snapshot) :
        /\ faults + Cardinality(bad) <= MaxFaults
        /\ \E fp \in [bad -> F] :
            LET fa == [t \in snapshot |-> IF t \in bad THEN fp[t] ELSE NoFault]
            IN  \E res \in {SweepEach(Swept(Current, TRUE, {}, {}), snapshot, fa)} :
                /\ res.hit
                /\ terminals' = res.store.terminals
                /\ containers' = res.store.containers
                /\ redis' = res.store.redis
                /\ faults' = faults + Cardinality(bad)
                /\ now' = now
                /\ channel' = channel
                /\ logs' = logs
                /\ NoToolCall
                /\ resp' = Response("sweep", NoAgent, NoAgent, UnknownId, 0, "",
                                    res.calls, res.destroyed)
                /\ given' = Given(NoRequest, {fp[t] : t \in bad})

(* --------------------------------- clock ------------------------------- *)

\* Redis drops a key when the expiry setex / expire gave it has passed
Live(R, t) == [k \in {x \in DOMAIN R : R[x].ttl = -1 \/ R[x].ttl > t} |-> R[k]]

Tick ==
    /\ now < MaxTicks * ClockStep
    /\ now' = now + ClockStep
    /\ redis' = Live(redis, now + ClockStep)
    /\ resp' = Response("tick", NoAgent, NoAgent, UnknownId, 0, "", {}, {})
    /\ given' = Given(NoRequest, {})
    /\ UNCHANGED <<terminals, containers, faults, channel, logs>>
    /\ NoToolCall

(* ---------------------------- specifications --------------------------- *)

Init ==
    /\ terminals = EmptyMap
    /\ containers = EmptyMap
    /\ redis = EmptyMap
    /\ now = 0
    /\ faults = 0
    /\ resp = Response("init", NoAgent, NoAgent, UnknownId, 0, "", {}, {})
    /\ given = Given(NoRequest, {})
    /\ channel = NoChannel
    /\ logs = NoLogs
    /\ tool = NoTool
    /\ ws = NoStream
    /\ simple = NoSimpleBridge

\* the ids a caller can name: those created so far and one that never was
Ids == DOMAIN terminals \cup {UnknownId}

\* tokens create_access_token issued recently: they verify
FreshTokens(As) == {Token(a, JWT_EXPIRE_HOURS) : a \in As}

\* create requests in the names As that leave environment and timeout_hours
\* at their defaults
Requests(As) == {TerminalCreateRequest(a, EmptyMap, DefaultTimeoutHours) : a \in As}

\* the requests of a next-state relation: callers presenting the credentials
\* Cs, create requests with the bodies Rs, the engine and the mirror failing
\* at the points F.  They reach the bridge directly, through no MCP tool.
Create(Cs, Rs, F, cap) == \E c \in Cs, r \in Rs, f \in F \cup {NoFault} :
    Cardinality(DOMAIN terminals) < cap /\ create_terminal(c, r, f) /\ NoToolCall
ExecuteUpTo(Cs, F, cap) == \E c \in Cs, t \in Ids, f \in F \cup {NoFault} :
    execute_command(c, t, f) /\ Commands(redis') <= cap /\ NoToolCall
Execute(Cs, F) == ExecuteUpTo(Cs, F, MaxCommands)
GetLogs(Cs, F) == \E c \in Cs, t \in Ids, f \in F \cup {NoFault} :
    get_logs(c, t, f) /\ NoToolCall
Delete(Cs, F) == \E c \in Cs, t \in Ids, f \in F \cup {NoFault} :
    delete_terminal(c, t, f) /\ NoToolCall
List(Cs) == \E c \in Cs : list_terminals(c) /\ NoToolCall
Stream(Cs, F) == \E c \in Cs, t \in Ids, f \in F \cup {NoFault} :
    terminal_stream(c, t, f, FALSE) /\ NoToolCall
Follow(Cs) == \E c \in Cs, t \in Ids :
    terminal_stream(c, t, NoFault, TRUE) /\ NoToolCall
Health == health_check /\ NoToolCall

(* ------------------------ MCP tools (mcp_tools.py) --------------------- *)

\* the keys of tool_methods
ToolNames ==
    {"create_terminal", "execute_command", "get_logs", "destroy_terminal",
     "list_terminals", "get_terminal_status"}

\* a method returned a dictionary
Returned(name, tid, success, error, statuses) ==
    ToolResult(name, tid, FALSE, success, error, statuses)

\* a method raised
Raised(name, tid, error) == ToolResult(name, tid, TRUE, FALSE, error, << >>)

\* the branches `if response.status == 200: ... else: ...` of the methods
\* that send one request
Answered(name, tid, r) ==
    Returned(name, tid, r.code = 200, IF r.code = 200 THEN "" ELSE "HTTP status", <<r.code>>)

\* mutant: call_tool without its try
Caught_nothing(result) == result

\* the try/except of call_tool round `await method(**parameters)`
Caught(result) ==
    IF result.raised
    THEN Returned(result.name, result.tid, FALSE, result.error, result.statuses)
    ELSE result

\* a call that ends before a request goes to the bridge
Unsent(result) ==
    /\ Refuse(Response("call_tool", NoAgent, NoAgent, UnknownId, 0, "", {}, {}))
    /\ tool' = result

\* what a method's caller gets of its result: call_tool has the call in its
\* try, any other caller has the result as it is
Handed(caller, result) == IF caller = "call_tool" THEN Caught(result) ELSE result

\* `if not self.session: raise RuntimeError(...)`
NotInitialized(name, tid) == Raised(name, tid, "Tools not initialized")

\* The methods of MCPTerminalTools that send one request.  ready: the
\* session exists; credentials: the Authorization header of the session;
\* caller: who called the method.
tool_create_terminal(ready, credentials, request, f, caller) ==
    IF ~ready
    THEN f = NoFault /\ Unsent(Handed(caller, NotInitialized("create_terminal", UnknownId)))
    ELSE /\ create_terminal(credentials, request, f)
         /\ tool' = Handed(caller, Answered("create_terminal", resp'.tid, resp'))

tool_execute_command(ready, credentials, terminal_id, f, caller) ==
    IF ~ready
    THEN f = NoFault /\ Unsent(Handed(caller, NotInitialized("execute_command", terminal_id)))
    ELSE /\ execute_command(credentials, terminal_id, f)
         /\ tool' = Handed(caller, Answered("execute_command", terminal_id, resp'))

\* get_logs with stream left false
tool_get_logs(ready, credentials, terminal_id, f, caller) ==
    IF ~ready
    THEN f = NoFault /\ Unsent(Handed(caller, NotInitialized("get_logs", terminal_id)))
    ELSE /\ get_logs(credentials, terminal_id, f)
         /\ tool' = Handed(caller, Answered("get_logs", terminal_id, resp'))

tool_destroy_terminal(ready, credentials, terminal_id, f, caller) ==
    IF ~ready
    THEN f = NoFault /\ Unsent(Handed(caller, NotInitialized("destroy_terminal", terminal_id)))
    ELSE /\ delete_terminal(credentials, terminal_id, f)
         /\ tool' = Handed(caller, Answered("destroy_terminal", terminal_id, resp'))

tool_list_terminals(ready, credentials, caller) ==
    IF ~ready
    THEN Unsent(Handed(caller, NotInitialized("list_terminals", UnknownId)))
    ELSE /\ list_terminals(credentials)
         /\ tool' = Handed(caller, Answered("list_terminals", UnknownId, resp'))

\* the ids of the records GET /terminals returns to the session
Listed(credentials) ==
    UNION {agent_terminals(terminals, v.agent_id) :
              v \in {w \in verify_token(credentials) : w.ok}}

\* the search of get_terminal_status in the list it was given
StatusFound(credentials, terminal_id) == terminal_id \in Listed(credentials)

\* MCPTerminalTools.get_terminal_status: list_terminals, and for a terminal
\* found in the list get_logs, whose failure only changes 'recent_logs'.  It
\* has no check of the session of its own: the RuntimeError is that of
\* list_terminals.
get_terminal_status(ready, credentials, terminal_id, f, caller) ==
    IF ~ready
    THEN f = NoFault /\ Unsent(Handed(caller, NotInitialized("get_terminal_status", terminal_id)))
    ELSE IF StatusFound(credentials, terminal_id)
    THEN /\ get_logs(credentials, terminal_id, f)
         /\ tool' = Handed(caller, Returned("get_terminal_status", terminal_id, TRUE,
                               IF resp'.code = 200 THEN "" ELSE "Unable to fetch logs",
                               <<200, resp'.code>>))
    ELSE /\ f = NoFault
         /\ list_terminals(credentials)
         /\ tool' = Handed(caller, IF resp'.code = 200
                      THEN Returned("get_terminal_status", terminal_id, FALSE,
                                    "Terminal not found", <<200>>)
                      ELSE Answered("get_terminal_status", terminal_id, resp'))

\* MCPTerminalTools.call_tool.  wellformed: the parameters are those the
\* method takes; otherwise `method(**parameters)` raises TypeError.
call_tool(tool_name, wellformed, ready, credentials, terminal_id, request, f) ==
    IF tool_name \notin ToolNames
    THEN f = NoFault
         /\ Unsent(Returned(tool_name, terminal_id, FALSE, "Unknown tool", << >>))
    ELSE IF ~wellformed
    THEN f = NoFault
         /\ Unsent(Caught(Raised(tool_name, terminal_id, "TypeError")))
    ELSE CASE tool_name = "create_terminal" ->
                tool_create_terminal(ready, credentials, request, f, "call_tool")
           [] tool_name = "execute_command" ->
                tool_execute_command(ready, credentials, terminal_id, f, "call_tool")
           [] tool_name = "get_logs" ->
                tool_get_logs(ready, credentials, terminal_id, f, "call_tool")
           [] tool_name = "destroy_terminal" ->
                tool_destroy_terminal(ready, credentials, terminal_id, f, "call_tool")
           [] tool_name = "list_terminals" ->
                f = NoFault /\ tool_list_terminals(ready, credentials, "call_tool")
           [] tool_name = "get_terminal_status" ->
                get_terminal_status(ready, credentials, terminal_id, f, "call_tool")

\* the tool names a caller can send: those there are and one there is not
CalledNames == ToolNames \cup {"no_such_tool"}

\* terminals created through the tools
MaxToolTerminals == 1

\* the calls a method makes the bridge send to the engine and the mirror
ToolFaults(tool_name) ==
    CASE tool_name = "create_terminal" -> CreateFaults
      [] tool_name = "execute_command" -> ExecuteFaults
      [] tool_name = "destroy_terminal" -> DestroyFaults
      [] tool_name \in {"get_logs", "get_terminal_status"} -> LogsFaults
      [] OTHER -> {}

\* calls of the MCP tools by sessions with the credentials Cs, creates with
\* the bodies Rs: the credentials, the terminal and the body count where the
\* call gets as far as using them
CallTool(Cs, Rs, F) ==
    \E tool_name \in CalledNames, wellformed \in BOOLEAN, ready \in BOOLEAN :
    \E sent \in {(tool_name \in ToolNames) /\ wellformed /\ ready} :
    \E c \in (IF sent THEN Cs ELSE {NoCredential}),
       t \in (IF sent /\ tool_name \notin {"create_terminal", "list_terminals"}
              THEN Ids ELSE {UnknownId}),
       r \in (IF sent /\ tool_name = "create_terminal" THEN Rs ELSE {NoRequest}),
       f \in (IF sent THEN ToolFaults(tool_name) \cap F ELSE {}) \cup {NoFault} :
        /\ call_tool(tool_name, wellformed, ready, c, t, r, f)
        /\ Cardinality(DOMAIN terminals') <= MaxToolTerminals
        /\ Commands(redis') <= MaxCommands
        /\ ws' = ws /\ simple' = simple

\* get_terminal_status called on an open session
Status(Cs, F) ==
    \E c \in Cs, t \in Ids, f \in F \cup {NoFault} :
        get_terminal_status(TRUE, c, t, f, "direct") /\ ws' = ws /\ simple' = simple

\* verified agents against a healthy engine and mirror
Next ==
    \/ Create(FreshTokens(Agents), Requests(Agents), {}, MaxTerminals)
    \/ Execute(FreshTokens(Agents), {})
    \/ GetLogs(FreshTokens(Agents), {})
    \/ Delete(FreshTokens(Agents), {})
    \/ List(FreshTokens(Agents))
    \/ Stream(FreshTokens(Agents), {})
    \/ cleanup_expired_terminals({})
    \/ Tick

Spec == Init /\ [][Next]_vars

\* one agent, with up to MaxFaults calls of the engine or the mirror failing
NextFaults ==
    \/ Create(FreshTokens({"a1"}), Requests({"a1"}), CreateFaults, MaxTerminals)
    \/ Execute(FreshTokens({"a1"}), ExecuteFaults)
    \/ GetLogs(FreshTokens({"a1"}), LogsFaults)
    \/ Delete(FreshTokens({"a1"}), DestroyFaults)
    \/ List(FreshTokens({"a1"}))
    \/ Stream(FreshTokens({"a1"}), StreamFaults)
    \/ cleanup_expired_terminals(DestroyFaults)
    \/ Tick

SpecFaults == Init /\ [][NextFaults]_vars

\* the calls that go to the Redis mirror
MirrorFaults == {"setex", "lpush", "expire", "delete", "delete_commands"}

\* the calls that go to the container engine once a terminal exists
EngineFaults == {"get", "exec_run", "stop", "remove"}

\* one agent's terminals with the engine failing under execute, under destroy
\* and under the sweeper
NextEngine ==
    \/ Create(FreshTokens({"a1"}), Requests({"a1"}), {}, MaxTerminals)
    \/ Execute(FreshTokens({"a1"}), ExecuteFaults \cap EngineFaults)
    \/ Delete(FreshTokens({"a1"}), DestroyFaults \cap EngineFaults)
    \/ cleanup_expired_terminals(DestroyFaults \cap EngineFaults)
    \/ Tick

SpecEngine == Init /\ [][NextEngine]_vars

\* commands executed in a behaviour of SpecAudit
MaxAuditEntries == 3

\* one agent executing command after command on its terminals, reading
\* their logs and destroying them, the sweeper running
NextAudit ==
    \/ Create(FreshTokens({"a1"}), Requests({"a1"}), {}, MaxTerminals)
    \/ ExecuteUpTo(FreshTokens({"a1"}), {}, MaxAuditEntries)
    \/ GetLogs(FreshTokens({"a1"}), {})
    \/ Delete(FreshTokens({"a1"}), {})
    \/ cleanup_expired_terminals({})
    \/ Tick

SpecAudit == Init /\ [][NextAudit]_vars

\* the operations that only read the registry, succeeding and failing, next
\* to creates and destroys
NextFrame ==
    \/ Create(FreshTokens({"a1"}), Requests({"a1"}), {}, MaxTerminals)
    \/ Delete(FreshTokens({"a1"}), {})
    \/ Execute(FreshTokens(Agents), ExecuteFaults)
    \/ GetLogs(FreshTokens(Agents), LogsFaults)
    \/ List(FreshTokens(Agents))
    \/ Stream(FreshTokens(Agents), StreamFaults)
    \/ Health

SpecFrame == Init /\ [][NextFrame]_vars

\* one agent creating, executing and destroying while the engine fails to
\* start a container or the mirror fails
NextOutage ==
    \/ Create(FreshTokens({"a1"}), Requests({"a1"}), CreateFaults, MaxTerminals)
    \/ Execute(FreshTokens({"a1"}), ExecuteFaults \cap MirrorFaults)
    \/ Delete(FreshTokens({"a1"}), DestroyFaults \cap MirrorFaults)
    \/ Tick

SpecOutage == Init /\ [][NextOutage]_vars

\* one agent's terminals, channels opened with every credential, the callers
\* leaving and the sessions writing lines when they like; the loop of
\* terminal_stream goes round when the log stream has something for it
NextStream ==
    \/ Create(FreshTokens({"a1"}), Requests({"a1"}), {}, MaxTerminals)
    \/ Delete(FreshTokens({"a1"}), {})
    \/ Follow(Credentials)
    \/ disconnect
    \/ emit_line
    \/ relay_log_line
    \/ Tick

SpecStream == Init /\ [][NextStream]_vars /\ WF_vars(relay_log_line)

\* environments a caller can send: none, a variable of its own, and values
\* for the variables create_agent_terminal sets itself
Environments ==
    {EmptyMap,
     [TEST_VAR |-> "integration_test"],
     [AGENT_ID |-> "a2", TEST_VAR |-> "integration_test"],
     [AGENT_ID |-> "a2", TERMINAL_ID |-> UnknownId, LOG_DIR |-> "/"]}

\* the largest timeout_hours a caller asks for, one above the configured one
MaxTimeoutHours == 5

CreateRequests(As) ==
    {TerminalCreateRequest(a, env, t) :
        a \in As, env \in Environments, t \in 1..MaxTimeoutHours}

\* one agent creating terminals with every request body, and destroying them
NextRequest ==
    \/ Create(FreshTokens({"a1"}), CreateRequests({"a1"}), {}, MaxTerminals)
    \/ Delete(FreshTokens({"a1"}), {})
    \/ cleanup_expired_terminals({})
    \/ Tick

SpecRequest == Init /\ [][NextRequest]_vars

\* every credential a caller can present, one agent owning the terminals
NextAuth ==
    \/ Create(Credentials, Requests({"a1"}), {}, MaxTerminals)
    \/ Execute(Credentials, {})
    \/ GetLogs(Credentials, {})
    \/ Delete(Credentials, {})
    \/ List(Credentials)
    \/ Stream(Credentials, {})
    \/ cleanup_expired_terminals({})
    \/ Tick

SpecAuth == Init /\ [][NextAuth]_vars

\* agent a1 creating up to its quota and beyond and destroying, a2 asking in
\* a1's name, the sweeper running
NextQuota ==
    \/ Create(FreshTokens(Agents), Requests({"a1"}), {}, MaxQuotaTerminals)
    \/ Delete(FreshTokens({"a1"}), {})
    \/ cleanup_expired_terminals({})
    \/ Tick

SpecQuota == Init /\ [][NextQuota]_vars

\* the sweeper alone is scheduled fairly: its loop only ever sleeps and
\* catches what a tick raises; requests come when callers send them
NextLive ==
    \/ Create(FreshTokens(Agents), Requests(Agents), {}, MaxTerminals)
    \/ Delete(FreshTokens(Agents), {})
    \/ cleanup_expired_terminals({})
    \/ Tick

SpecLive == Init /\ [][NextLive]_vars /\ WF_vars(cleanup_expired_terminals({}))

(* -------------------- _stream_logs (mcp_tools.py) ---------------------- *)

\* `while timeout_count < 30`
StreamIdleLimit == 30

\* lines counted in log_buffer; the buffer itself has no limit
MaxBufferedLines == 3

\* the bridge of server.py and the simple bridge do not move
BridgesIdle ==
    UNCHANGED <<terminals, containers, redis, now, faults, resp, given, channel, logs, simple>>

\* get_logs with stream = true: _stream_logs connects and enters its loop, or
\* importing websockets or connecting raises and the method returns the
\* failure
open_stream ==
    /\ ~ws.running
    /\ \/ ws' = StreamClient(TRUE, 0, 0) /\ tool' = NoTool
       \/ ws' = NoStream
          /\ tool' = Returned("get_logs", UnknownId, FALSE, "exception", << >>)
    /\ BridgesIdle

\* websocket.recv() gave a message within the second
Received(client) ==
    [client EXCEPT !.log_buffer = IF @ < MaxBufferedLines THEN @ + 1 ELSE @,
                   !.timeout_count = 0]

\* one round of the loop of _stream_logs: a message, a timeout, or the
\* connection closed, which leaves the loop; with timeout_count at the limit
\* the loop is left as well.  Having left the loop the method returns.
stream_round ==
    /\ ws.running
    /\ IF ws.timeout_count < StreamIdleLimit
       THEN \/ ws' = Received(ws) /\ tool' = NoTool
            \/ ws' = [ws EXCEPT !.timeout_count = @ + 1] /\ tool' = NoTool
            \/ ws' = NoStream
               /\ tool' = Returned("get_logs", UnknownId, TRUE, "", << >>)
       ELSE /\ ws' = NoStream
            /\ tool' = Returned("get_logs", UnknownId, TRUE, "", << >>)
    /\ BridgesIdle

\* The client on its own.  Its loop is a coroutine the event loop resumes
\* whenever recv returns, times out or raises: a round is always taken.
NextClient ==
    \/ open_stream
    \/ stream_round

SpecClient == Init /\ [][NextClient]_vars /\ WF_vars(stream_round)

(* --------------------- simple bridge (simple_bridge.py) ---------------- *)

\* terminals the simple bridge is asked to create
MaxSimpleTerminals == 2

\* the bridge of server.py and the MCP client do not move
OthersIdle ==
    UNCHANGED <<terminals, containers, redis, now, faults, resp, given, channel, logs,
                tool, ws>>

\* the ids a caller of the simple bridge can name: those it was given and
\* one that never was
SimpleIds == 1 .. (simple.created + 1)

\* POST /terminals/create.  success: what run_command returned for the
\* script that starts the container.
simple_create_terminal(agent_id, success) ==
    LET terminal_id == simple.created + 1 IN
    /\ simple.created < MaxSimpleTerminals
    /\ simple' =
         IF ~success
         THEN [simple EXCEPT !.resp = SimpleResponse("create", UnknownId, 500, FALSE)]
         ELSE SimpleBridge(Put(simple.active_terminals, terminal_id,
                               [agent_id |-> agent_id, status |-> "running"]),
                           terminal_id,
                           simple.containers \cup {terminal_id},
                           SimpleResponse("create", terminal_id, 200, TRUE))
    /\ OthersIdle

\* the requests that look the terminal up and run one docker command that
\* changes nothing: execute, logs, status
simple_lookup(op, terminal_id, success) ==
    /\ simple' =
         IF terminal_id \notin DOMAIN simple.active_terminals
         THEN [simple EXCEPT !.resp = SimpleResponse(op, terminal_id, 404, FALSE)]
         ELSE [simple EXCEPT !.resp = SimpleResponse(op, terminal_id, 200, success)]
    /\ OthersIdle

\* POST /terminals/{terminal_id}/execute
simple_execute_command(terminal_id, success) ==
    simple_lookup("execute", terminal_id, success)

\* GET /terminals/{terminal_id}/logs
simple_get_logs(terminal_id, success) ==
    simple_lookup("get_logs", terminal_id, success)

\* GET /terminals/{terminal_id}/status
simple_get_terminal_status(terminal_id, success) ==
    simple_lookup("status", terminal_id, success)

\* mutant: the id is kept when the container could not be stopped
simple_destroy_terminal_keeping(terminal_id, success) ==
    /\ simple' =
         IF terminal_id \notin DOMAIN simple.active_terminals
         THEN [simple EXCEPT !.resp = SimpleResponse("destroy", terminal_id, 404, FALSE)]
         ELSE IF ~success
         THEN [simple EXCEPT !.resp = SimpleResponse("destroy", terminal_id, 200, FALSE)]
         ELSE SimpleBridge(Del(simple.active_terminals, terminal_id),
                           simple.created,
                           simple.containers \ {terminal_id},
                           SimpleResponse("destroy", terminal_id, 200, TRUE))
    /\ OthersIdle

\* DELETE /terminals/{terminal_id}.  success: what run_command returned for
\* `docker stop ... && docker rm ...`; when it failed the container is still
\* there.
simple_destroy_terminal(terminal_id, success) ==
    /\ simple' =
         IF terminal_id \notin DOMAIN simple.active_terminals
         THEN [simple EXCEPT !.resp = SimpleResponse("destroy", terminal_id, 404, FALSE)]
         ELSE SimpleBridge(Del(simple.active_terminals, terminal_id),
                           simple.created,
                           IF success THEN simple.containers \ {terminal_id}
                           ELSE simple.containers,
                           SimpleResponse("destroy", terminal_id, 200, success))
    /\ OthersIdle

SimpleCreate == \E a \in Agents, success \in BOOLEAN : simple_create_terminal(a, success)
SimpleExecute == \E t \in SimpleIds, success \in BOOLEAN : simple_execute_command(t, success)
SimpleGetLogs == \E t \in SimpleIds, success \in BOOLEAN : simple_get_logs(t, success)
SimpleStatus == \E t \in SimpleIds, success \in BOOLEAN : simple_get_terminal_status(t, success)
SimpleDestroy == \E t \in SimpleIds, success \in BOOLEAN : simple_destroy_terminal(t, success)

\* the requests of the simple bridge, its shell commands succeeding or not
NextSimple ==
    \/ SimpleCreate
    \/ SimpleExecute
    \/ SimpleGetLogs
    \/ SimpleStatus
    \/ SimpleDestroy

SpecSimple == Init /\ [][NextSimple]_vars

\* two agents' terminals coming and going, and their sessions asking for the
\* status of every id while the engine answers or fails
NextStatus ==
    \/ Create(FreshTokens(Agents), Requests(Agents), {}, MaxTerminals)
    \/ Delete(FreshTokens(Agents), {})
    \/ cleanup_expired_terminals({})
    \/ Status(FreshTokens(Agents), LogsFaults)
    \/ Tick

SpecStatus == Init /\ [][NextStatus]_vars

\* the credentials a session can be given that do not depend on the hour
SessionCredentials == {NoCredential, BadToken} \cup FreshTokens(Agents)

\* calls of every tool, with these credentials, on sessions opened and not,
\* with parameters that fit and that do not, the engine failing
NextTools ==
    \/ CallTool(SessionCredentials, Requests({"a1"}), EngineFaults \cup {"run", "logs"})

SpecTools == Init /\ [][NextTools]_vars

(* -------------------------------- claims ------------------------------- *)

StoreUnchanged == terminals' = terminals /\ containers' = containers /\ redis' = redis

\* C1: no agent ever owns more than MAX_TERMINALS_PER_AGENT running terminals,
\* whatever the interleaving of creates, destroys and sweeps.
C1_QuotaRespected ==
    \A a \in Agents : Cardinality(Running(terminals, a)) <= MAX_TERMINALS_PER_AGENT

\* an agent is back at its quota by a create that followed a destroy
C1_Witness ==
    /\ resp.op = "create" /\ resp.code = 200
    /\ Cardinality(Running(terminals, resp.agent)) = MAX_TERMINALS_PER_AGENT
    /\ \E t \in DOMAIN terminals : terminals[t].status = "destroyed"

\* C2 (as claimed): once a terminal is destroyed, every execute and get_logs
\* on its id is answered 404.
C2_DestroyedIsNotFound ==
    (/\ resp.op \in {"execute", "get_logs"}
     /\ resp.tid \in DOMAIN terminals
     /\ terminals[resp.tid].status = "destroyed")
        => resp.code = 404

\* C3: a step changes the status of a terminal only from running to destroyed,
\* and no record ever carries another status.
C3_StatusOnlyRunningToDestroyed ==
    [][/\ \A t \in DOMAIN terminals :
            /\ t \in DOMAIN terminals'
            /\ terminals'[t].status # terminals[t].status
                => terminals[t].status = "running" /\ terminals'[t].status = "destroyed"
       /\ \A t \in DOMAIN terminals' : terminals'[t].status \in {"running", "destroyed"}]_vars

\* the owner asked to destroy a destroyed terminal, and it stayed destroyed
C3_Witness ==
    /\ resp.op = "delete" /\ resp.code = 500
    /\ resp.tid \in DOMAIN terminals
    /\ terminals[resp.tid].status = "destroyed"

\* C4: the agent_id a record was inserted with is its agent_id in every later
\* state; no step of any operation reassigns it.
C4_OwnerNeverChanges ==
    [][\A t \in DOMAIN terminals :
            /\ t \in DOMAIN terminals'
            /\ terminals'[t].agent_id = terminals[t].agent_id]_vars

\* another agent created a terminal next to a first agent's terminal
C4_Witness ==
    /\ resp.op = "create" /\ resp.code = 200
    /\ \E t \in DOMAIN terminals : t # resp.tid /\ terminals[t].agent_id # resp.agent

\* C5: every record list_terminals returns to a verified agent is owned by it.
C5_ListOnlyOwn ==
    (resp.op = "list" /\ resp.code = 200)
        => \A t \in resp.listing : terminals[t].agent_id = resp.agent

\* an agent listed its terminals while another agent's terminal existed
C5_Witness ==
    /\ resp.op = "list" /\ resp.code = 200 /\ resp.listing # {}
    /\ \E t \in DOMAIN terminals : terminals[t].agent_id # resp.agent

OwnershipMismatch(r) == r.detail = "Access denied" /\ r.code = (IF r.op = "stream" THEN 0 ELSE 403)

\* C6: execute, get_logs, delete and the stream on an existing terminal by a
\* verified agent that does not own it are refused as "Access denied" (403 on
\* the HTTP routes), call nothing at the engine and change nothing.
C6_NonOwnerRefused ==
    [][(/\ resp'.op \in {"execute", "get_logs", "delete", "stream"}
        /\ resp'.agent \in Agents
        /\ resp'.tid \in DOMAIN terminals
        /\ terminals[resp'.tid].agent_id # resp'.agent)
           => /\ OwnershipMismatch(resp')
              /\ resp'.calls = {}
              /\ StoreUnchanged]_vars

\* a non-owner asked to destroy a running terminal and was refused
C6_Witness ==
    /\ resp.op = "delete" /\ OwnershipMismatch(resp)
    /\ resp.tid \in DOMAIN terminals
    /\ terminals[resp.tid].status = "running"
    /\ terminals[resp.tid].agent_id # resp.agent

\* C7: a create whose payload agent_id is not the token's agent_id is refused
\* with 403: nothing is started, nothing inserted, no running count changes.
C7_PayloadMismatchRefused ==
    [][(/\ resp'.op = "create"
        /\ resp'.agent \in Agents
        /\ resp'.payload # resp'.agent)
           => /\ resp'.code = 403
              /\ resp'.calls = {}
              /\ StoreUnchanged
              /\ \A a \in Agents : Running(terminals', a) = Running(terminals, a)]_vars

\* a create in another agent's name was refused while terminals existed
C7_Witness ==
    /\ resp.op = "create" /\ resp.code = 403
    /\ resp.agent \in Agents /\ resp.payload # resp.agent
    /\ terminals # EmptyMap

\* C8 (as claimed): every HTTP request whose credential is missing, invalid or
\* expired is answered 401.
C8_BadCredentialIs401 ==
    (resp.op \in {"create", "execute", "get_logs", "delete", "list"} /\ resp.agent = NoAgent)
        => resp.code = 401

\* C9: under a fair sweeper and a healthy engine, a running terminal whose
\* expires_at has passed is eventually destroyed.
C9_ExpiredEventuallyDestroyed ==
    \A t \in 1..MaxTerminals :
        (t \in DOMAIN terminals /\ terminals[t].status = "running"
            /\ now > terminals[t].expires_at)
        ~> (t \in DOMAIN terminals /\ terminals[t].status = "destroyed")

\* a tick of the sweeper destroyed an expired terminal
C9_Witness ==
    /\ resp.op = "sweep" /\ resp.listing # {}
    /\ \A t \in resp.listing :
        terminals[t].status = "destroyed" /\ now > terminals[t].expires_at

\* C10: a create by an agent that owns MAX_TERMINALS_PER_AGENT running
\* terminals is refused with 429 before anything is started: no engine call,
\* no record, no mirror entry.
C10_AtQuotaRefused ==
    [][(/\ resp'.op = "create"
        /\ resp'.agent \in Agents
        /\ resp'.payload = resp'.agent
        /\ Cardinality(Running(terminals, resp'.agent)) = MAX_TERMINALS_PER_AGENT)
           => /\ resp'.code = 429
              /\ resp'.calls = {}
              /\ StoreUnchanged]_vars

\* the sixth create of an agent was refused
C10_Witness ==
    /\ resp.op = "create" /\ resp.code = 429
    /\ Cardinality(Running(terminals, resp.agent)) = MAX_TERMINALS_PER_AGENT

\* C11 (as claimed): a destroy by the owner on a terminal that was already
\* destroyed, by an earlier destroy or by the sweeper, is answered 404 and
\* makes no stop call.
C11_SecondDestroyIsNotFound ==
    [][(/\ resp'.op = "delete"
        /\ resp'.tid \in DOMAIN terminals
        /\ terminals[resp'.tid].status = "destroyed"
        /\ terminals[resp'.tid].agent_id = resp'.agent)
           => /\ resp'.code = 404
              /\ "stop" \notin resp'.calls]_vars

\* C12 (as claimed): after a destroy that succeeded, by the owner or by the
\* sweeper, the id is no key of the registry and the mirror holds neither
\* terminal:{id} nor terminal:{id}:commands.
C12_DestroyedIsRemoved ==
    [][\A t \in DOMAIN terminals :
        (\/ resp'.op = "delete" /\ resp'.tid = t /\ resp'.code = 200
         \/ resp'.op = "sweep" /\ t \in resp'.listing)
            => /\ t \notin DOMAIN terminals'
               /\ TerminalKey(t) \notin DOMAIN redis'
               /\ CommandsKey(t) \notin DOMAIN redis']_vars

\* C13: a create during which the engine fails to start the container is
\* answered with a failure and leaves the registry as it was: no record for
\* the generated id, every agent's running count unchanged.  A record enters
\* the registry only in a step whose containers.run succeeded, with its
\* container started, and no record ever has a status other than running or
\* destroyed.
C13_NoRecordWithoutStart ==
    [][/\ (resp'.op = "create" /\ "run" \in given'.failed)
            => /\ resp'.code = 500
               /\ terminals' = terminals
               /\ \A a \in Agents : Running(terminals', a) = Running(terminals, a)
       /\ \A t \in DOMAIN terminals' \ DOMAIN terminals :
            /\ resp'.op = "create" /\ "run" \in resp'.calls /\ "run" \notin given'.failed
            /\ terminals'[t].container_id \in DOMAIN containers'
            /\ containers'[terminals'[t].container_id].status = "running"
       /\ \A t \in DOMAIN terminals' : terminals'[t].status \in {"running", "destroyed"}]_vars

\* the engine failed to start a container for an agent that has a running
\* terminal
C13_Witness ==
    /\ resp.op = "create" /\ resp.code = 500
    /\ "run" \in given.failed
    /\ Running(terminals, resp.agent) # {}

\* C14 (as claimed): a create, execute or destroy during which a call to the
\* Redis mirror fails still answers its caller with success.
C14_MirrorFailureIgnored ==
    [][(/\ resp'.op \in {"create", "execute", "delete"}
        /\ given'.failed \cap MirrorFaults # {})
           => resp'.code = 200]_vars

C16_LifetimeAsRequested ==
    [][(resp'.op = "create" /\ resp'.code = 200)
         => LET t == given'.request.timeout_hours
                info == terminals'[resp'.tid]
            IN  info.expires_at = info.created_at
                    + (IF t < TERMINAL_TIMEOUT_HOURS THEN t ELSE TERMINAL_TIMEOUT_HOURS)]_vars

ReservedKeys == {"AGENT_ID", "TERMINAL_ID", "LOG_DIR"}

\* C17 (as claimed): the container of a successful create sees the
\* orchestrator's AGENT_ID, TERMINAL_ID and LOG_DIR whatever the caller sent
\* for them, and every other variable of the caller unchanged.
C17_ReservedKeysOverridden ==
    [][(resp'.op = "create" /\ resp'.code = 200)
         => LET asked == given'.request.environment
                seen == containers'[terminals'[resp'.tid].container_id].environment
            IN  /\ seen["AGENT_ID"] = resp'.agent
                /\ seen["TERMINAL_ID"] = resp'.tid
                /\ seen["LOG_DIR"] = "/tmp/logs"
                /\ \A k \in DOMAIN asked \ ReservedKeys : seen[k] = asked[k]]_vars

\* C18: execute checks in the order not_found, ownership, not_running: an
\* absent id is 404 for every verified caller, an existing terminal is 403
\* for a non-owner whatever its status, a terminal that is not running is 400
\* for its owner, and exec_run is called only when all three checks pass.
C18_ExecuteCheckOrder ==
    [][(resp'.op = "execute" /\ resp'.agent \in Agents)
         => LET t == resp'.tid
                present == t \in DOMAIN terminals
                owner == terminals[t].agent_id = resp'.agent
                running == terminals[t].status = "running"
            IN  /\ ~present
                    => resp'.code = 404 /\ resp'.detail = "Terminal not found"
                /\ (present /\ ~owner)
                    => resp'.code = 403 /\ resp'.detail = "Access denied"
                /\ (present /\ owner /\ ~running)
                    => resp'.code = 400 /\ resp'.detail = "Terminal not running"
                /\ resp'.code \in {404, 403, 400} => resp'.calls = {} /\ StoreUnchanged
                /\ "exec_run" \in resp'.calls => present /\ owner /\ running]_vars

\* a non-owner's execute on a destroyed terminal was answered with the
\* ownership error, not with not_running
C18_Witness ==
    /\ resp.op = "execute" /\ resp.code = 403
    /\ resp.tid \in DOMAIN terminals
    /\ terminals[resp.tid].status = "destroyed"
    /\ terminals[resp.tid].agent_id # resp.agent

\* C19: a successful create by a verified agent inserts, under an id no
\* record ever had, a record with status running and the agent as agent_id,
\* and returns it; no record leaves the registry, and while the record is
\* running the agent's execute and get_logs on it are accepted.
C19_CreatedIsUsable ==
    [][/\ (resp'.op = "create" /\ resp'.code = 200)
            => /\ resp'.agent \in Agents
               /\ resp'.tid \notin DOMAIN terminals
               /\ resp'.tid \in DOMAIN terminals'
               /\ resp'.listing = {resp'.tid}
               /\ terminals'[resp'.tid].status = "running"
               /\ terminals'[resp'.tid].agent_id = resp'.agent
       /\ DOMAIN terminals \subseteq DOMAIN terminals'
       /\ (/\ resp'.op \in {"execute", "get_logs"}
           /\ resp'.tid \in DOMAIN terminals
           /\ terminals[resp'.tid].agent_id = resp'.agent
           /\ terminals[resp'.tid].status = "running")
            => resp'.code = 200 /\ "get" \in resp'.calls]_vars

\* an agent's execute on its second terminal was accepted after its first
\* was destroyed
C19_Witness ==
    /\ resp.op = "execute" /\ resp.code = 200
    /\ terminals[resp.tid].agent_id = resp.agent
    /\ \E t \in DOMAIN terminals :
        /\ t < resp.tid
        /\ terminals[t].agent_id = resp.agent
        /\ terminals[t].status = "destroyed"

\* C20: list_terminals returns to a verified agent every record it owns; a
\* terminal it created and did not destroy is in the list.
C20_ListAllOwn ==
    (resp.op = "list" /\ resp.code = 200)
        => \A t \in DOMAIN terminals :
            terminals[t].agent_id = resp.agent => t \in resp.listing

\* an agent that owns a running and a destroyed terminal listed both
C20_Witness ==
    /\ resp.op = "list" /\ resp.code = 200
    /\ \E t, u \in resp.listing :
        terminals[t].status = "running" /\ terminals[u].status = "destroyed"

\* C21: no log line is relayed and the log stream of the engine is not asked
\* for before the token has decoded, the terminal is in the registry and its
\* agent_id is the token's: a channel that failed a check is closed with
\* nothing called at the engine, and a channel being relayed on belongs to
\* the owner of its terminal.
C21_StreamOnlyAfterChecks ==
    /\ resp.op = "stream"
        => /\ (resp.calls # {} \/ resp.detail = "streaming")
                => /\ resp.agent \in Agents
                   /\ resp.tid \in DOMAIN terminals
                   /\ terminals[resp.tid].agent_id = resp.agent
           /\ (\/ resp.agent = NoAgent
               \/ resp.tid \notin DOMAIN terminals
               \/ terminals[resp.tid].agent_id # resp.agent)
                => /\ resp.calls = {}
                   /\ resp.detail \in {"Token required", "Invalid token", "WebSocket error",
                                       "Terminal not found", "Access denied"}
    /\ channel.open
        => /\ channel.tid \in DOMAIN terminals
           /\ terminals[channel.tid].agent_id = channel.agent

\* another agent asked for the stream of a terminal while its owner's channel
\* was open, and was turned away
C21_Witness ==
    /\ resp.op = "stream" /\ resp.detail = "Access denied"
    /\ channel.open /\ channel.tid = resp.tid

\* C22 (as claimed): once the caller of a channel has disconnected, the
\* handler eventually leaves its loop and lets go of the log stream.
C22_DisconnectReleases ==
    (channel.open /\ ~channel.connected) ~> ~channel.open

\* C23: a destroy by the owner during which the engine fails (containers.get,
\* stop or remove) is answered as failed and leaves the record as it was,
\* running; a destroy of a running terminal that meets no failure succeeds,
\* whatever failed before.
C23_FailedDestroyKeepsRunning ==
    [][/\ (resp'.op = "delete" /\ given'.failed \cap EngineFaults # {})
            => /\ resp'.code = 500
               /\ terminals' = terminals
               /\ terminals'[resp'.tid].status = "running"
       /\ (/\ resp'.op = "delete" /\ given'.failed = {}
           /\ resp'.tid \in DOMAIN terminals
           /\ terminals[resp'.tid].status = "running")
            => /\ resp'.code = 200
               /\ terminals'[resp'.tid].status = "destroyed"]_vars

\* the engine stopped the container and then refused to remove it
C23_Witness ==
    /\ resp.op = "delete" /\ resp.code = 500
    /\ "remove" \in given.failed
    /\ terminals[resp.tid].status = "running"
    /\ containers[terminals[resp.tid].container_id].status = "exited"

\* C24: a tick of the sweeper leaves running exactly as many terminals of its
\* snapshot as teardowns failed in it: a failure costs the terminal it hit
\* and no other, wherever in the snapshot it comes.
C24_SweepGoesOn ==
    [][resp'.op = "sweep"
         => LET snapshot == expired_terminals(terminals, now)
                left == {t \in snapshot : terminals'[t].status = "running"}
            IN  /\ Cardinality(left) = faults' - faults
                /\ resp'.listing = snapshot \ left]_vars

\* a tick destroyed one terminal of its snapshot and failed on another
C24_Witness ==
    /\ resp.op = "sweep" /\ given.failed # {}
    /\ resp.listing # {}
    /\ \E t \in DOMAIN terminals :
        terminals[t].status = "running" /\ Expired(terminals[t], now)

C28_FailedExecuteKeepsRecord ==
    [][/\ (resp'.op = "execute" /\ given'.failed \cap EngineFaults # {})
            => /\ resp'.code = 500
               /\ terminals' = terminals
               /\ terminals'[resp'.tid].status = "running"
       /\ (/\ resp'.op = "execute" /\ given'.failed = {}
           /\ resp'.tid \in DOMAIN terminals
           /\ terminals[resp'.tid].status = "running"
           /\ containers[terminals[resp'.tid].container_id].status = "running")
            => resp'.code = 200]_vars

\* exec_run failed on a running terminal
C28_Witness ==
    /\ resp.op = "execute" /\ resp.code = 500
    /\ "exec_run" \in given.failed
    /\ terminals[resp.tid].status = "running"

C27_AuditListBounded ==
    \A t \in DOMAIN terminals :
        CommandsKey(t) \in DOMAIN redis => redis[CommandsKey(t)].len < MaxAuditEntries

\* C29: only create, destroy and the sweeper change the registry: a step of
\* execute, get_logs, list_terminals, the health check or the stream, served
\* or failed, leaves every key and every record as it was.
C29_OnlyLifecycleWrites ==
    [][terminals' # terminals => resp'.op \in {"create", "delete", "sweep"}]_vars

\* get_logs failed on a destroyed terminal and its record is still there
C29_Witness ==
    /\ resp.op = "get_logs" /\ resp.code = 500
    /\ resp.tid \in DOMAIN terminals
    /\ terminals[resp.tid].status = "destroyed"

\* the mirror entries of a terminal
Mirror(R, t) == [k \in {TerminalKey(t), CommandsKey(t)} \cap DOMAIN R |-> R[k]]

\* C30: a step of create, execute, get_logs or destroy on one terminal, and a
\* tick of the sweeper, leave the record and the mirror entries of every
\* other terminal (for a tick: of every terminal outside its snapshot) as
\* they were.
C30_OtherTerminalsUntouched ==
    [][resp'.op \in {"create", "execute", "get_logs", "delete", "sweep"}
         => LET touched == IF resp'.op = "sweep"
                           THEN expired_terminals(terminals, now)
                           ELSE {resp'.tid}
            IN  \A y \in DOMAIN terminals \ touched :
                    /\ y \in DOMAIN terminals'
                    /\ terminals'[y] = terminals[y]
                    /\ Mirror(redis', y) = Mirror(redis, y)]_vars

\* a terminal was destroyed next to a running one that has both its mirror
\* entries
C30_Witness ==
    /\ resp.op = "delete" /\ resp.code = 200
    /\ CommandsKey(resp.tid) \notin DOMAIN redis
    /\ \E y \in DOMAIN terminals :
        /\ y # resp.tid
        /\ terminals[y].status = "running"
        /\ TerminalKey(y) \in DOMAIN redis
        /\ CommandsKey(y) \in DOMAIN redis

\* the lines sent down the channel are in the order the session wrote them,
\* none of them twice
SentInOrder ==
    \A i, j \in DOMAIN logs.sent : i < j => logs.sent[i] < logs.sent[j]

\* no line sent down the channel was in the log when the channel was opened
SentNothingOlder ==
    \A i \in DOMAIN logs.sent : logs.sent[i] > logs.since

\* C31 (as claimed): a channel delivers the lines of its session in the order
\* they were written, none twice, and none that was written before the
\* channel was opened.
C31_InOrderNoReplay == SentInOrder /\ SentNothingOlder

\* the container of a terminal is as it was
SessionUntouched(t) ==
    LET cid == terminals[t].container_id
    IN  cid \in DOMAIN containers
            => cid \in DOMAIN containers' /\ containers'[cid] = containers[cid]

\* C32: a tick of the sweeper touches only terminals that are 'running' and
\* whose expires_at is strictly before the time of the tick.  Every other
\* terminal - not yet expired, expiring this very hour, or destroyed before
\* the snapshot - keeps its record, its container and its mirror entries, and
\* a tick that finds no such terminal calls the engine for nothing.
C32_SweepsOnlyExpiredRunning ==
    [][resp'.op = "sweep"
         => LET due == {t \in DOMAIN terminals :
                            terminals[t].status = "running" /\ terminals[t].expires_at < now}
            IN  /\ \A t \in DOMAIN terminals \ due :
                        /\ terminals'[t] = terminals[t]
                        /\ SessionUntouched(t)
                        /\ Mirror(redis', t) = Mirror(redis, t)
                /\ resp'.listing \subseteq due
                /\ due = {} => resp'.calls = {}]_vars

\* a tick tore a terminal down and left alone a running one that expires
\* this very hour
C32_Witness ==
    /\ resp.op = "sweep" /\ resp.listing # {}
    /\ \E y \in DOMAIN terminals :
        /\ terminals[y].status = "running"
        /\ terminals[y].expires_at = now
        /\ terminals[y].container_id \in DOMAIN containers

\* the records of an agent in a given status
Owned(agent_id, status) ==
    {t \in DOMAIN terminals :
        terminals[t].agent_id = agent_id /\ terminals[t].status = status}

\* C33: the quota counts running terminals only.  A create in an agent's own
\* name is refused with 429 exactly when the agent owns
\* MAX_TERMINALS_PER_AGENT running terminals; destroyed ones, however many,
\* never count, so an agent at its quota can create again once one of its
\* terminals was destroyed by itself or by the sweeper.
C33_QuotaCountsRunningOnly ==
    [][(/\ resp'.op = "create"
        /\ resp'.agent \in Agents
        /\ resp'.payload = resp'.agent)
           => (resp'.code = 429
                 <=> Cardinality(Owned(resp'.agent, "running")) >= MAX_TERMINALS_PER_AGENT)]_vars

\* an agent that owns more records than its quota allows, destroyed ones
\* among them, has created one more terminal
C33_Witness ==
    /\ resp.op = "create" /\ resp.code = 200
    /\ Owned(resp.agent, "destroyed") # {}
    /\ Cardinality(Owned(resp.agent, "running") \cup Owned(resp.agent, "destroyed"))
          > MAX_TERMINALS_PER_AGENT

\* C34 (as claimed): between operations every entry of the mirror, terminal
\* key or command list, belongs to a terminal whose record is 'running',
\* also when calls of the engine or of the mirror have failed.
C34_MirrorOnlyForRunning ==
    \A k \in DOMAIN redis :
        \E t \in DOMAIN terminals :
            /\ k \in {TerminalKey(t), CommandsKey(t)}
            /\ terminals[t].status = "running"

\* C35 (as claimed): a create that is answered with a failure - the quota,
\* the engine or the mirror - has left nothing behind: no container it
\* started is at the engine and no record of it is in the registry.
C35_FailedCreateLeavesNothing ==
    [][(resp'.op = "create" /\ resp'.code \in {429, 500})
          => /\ DOMAIN containers' \subseteq DOMAIN containers
             /\ DOMAIN terminals' \subseteq DOMAIN terminals]_vars

\* C36 (as claimed): get_terminal_status answers success exactly for the ids
\* in the caller's list_terminals result, and 'Terminal not found' for every
\* id that is unknown, owned by another identity or already destroyed.
C36_StatusOfListedOnly ==
    [][(tool'.name = "get_terminal_status" /\ resp'.agent \in Agents)
          => LET t == tool'.tid
                 a == resp'.agent
             IN  /\ tool'.success <=> t \in agent_terminals(terminals, a)
                 /\ (\/ t \notin DOMAIN terminals
                     \/ terminals[t].agent_id # a
                     \/ terminals[t].status = "destroyed")
                       => ~tool'.success /\ tool'.error = "Terminal not found"]_vars

\* the call that ended in this step failed and says why
Failure(result) == ~result.success /\ result.error # ""

\* what C37 holds of every call: it does not raise, and it fails with a
\* reason when the tool is unknown, when the parameters do not fit and when
\* the session is not open (no request is sent in the three cases)
ExplicitResult ==
    /\ ~tool'.raised
    /\ tool'.success \in BOOLEAN
    /\ tool'.name \notin ToolNames => Failure(tool')
    /\ tool'.statuses = << >> => Failure(tool')

SimpleDestroyed(bridge) == (1 .. bridge.created) \ DOMAIN bridge.active_terminals

\* C38: in the simple bridge a destroy of a known id takes the id out of
\* active_terminals whether the stop command succeeded or not, answering 200
\* with the outcome in 'success'; no id comes back, and every later execute,
\* get_logs, status and destroy on such an id is answered 404.
C38_SimpleDestroyAlwaysRemoves ==
    [][simple' # simple
          => LET r == simple'.resp IN
             /\ (r.op = "destroy" /\ r.tid \in DOMAIN simple.active_terminals)
                   => /\ r.tid \notin DOMAIN simple'.active_terminals
                      /\ r.code = 200
                      /\ r.success <=> r.tid \notin simple'.containers
             /\ SimpleDestroyed(simple) \subseteq SimpleDestroyed(simple')
             /\ (/\ r.op \in {"execute", "get_logs", "status", "destroy"}
                 /\ r.tid \in SimpleDestroyed(simple))
                   => r.code = 404]_vars

\* a request on a terminal whose destroy could not stop the container was
\* answered 404
C38_Witness ==
    /\ simple.resp.op \in {"execute", "get_logs", "status", "destroy"}
    /\ simple.resp.code = 404
    /\ simple.resp.tid \in SimpleDestroyed(simple)
    /\ simple.resp.tid \in simple.containers

\* C39 (as claimed): _stream_logs always comes to an end, also while the
\* server keeps sending lines.
C39_StreamLogsTerminates == ws.running ~> ~ws.running

\* what holds of the loop: it is left when the connection closes, and it is
\* never in a round with timeout_count above StreamIdleLimit
StreamIdleBounded == ws.timeout_count <= StreamIdleLimit

====
